---- MODULE Spec2Model ----
(***************************************************************************)
(* Cafe Finder (src/script.js): geolocation or map pick, Overpass query    *)
(* with a static-file fallback, haversine sort, search filter, list/marker *)
(* selection and persisted preferences, as a state machine over the        *)
(* module-level state of the script and its in-flight asynchronous steps.  *)
(*                                                                         *)
(* JavaScript values.  A number that may be undefined is a sequence of     *)
(* length at most one: <<>> is undefined (or NaN for a computed number),   *)
(* <<n>> is the number n.  A string is the sequence of its characters; an  *)
(* undefined string is UndefStr.  Coordinates are whole degrees.           *)
(***************************************************************************)
EXTENDS Integers, Sequences, FiniteSets, TLC

VARIABLES
  allCafes,        \* line 41: canonical fetched cafes
  filteredCafes,   \* line 42: cafes after search filter
  selectedCafeId,  \* line 43
  cafeLayer,       \* line 37: ids of the markers on the layer, in order
  idToMarker,      \* line 45: id -> index of its marker in cafeLayer
  cardList,        \* line 14: children of cafeListEl, [id, selected]
  idToCard,        \* line 47: id -> index of its card in cardList
  userMarker,      \* line 38: <<>> (null) or <<[lat, lng]>>
  searchInput,     \* line 9: value of the search box
  radius,          \* line 10: Number(radiusSelect.value)
  summary,         \* line 15: resultSummaryEl.textContent
  spinner,         \* line 16: TRUE while the spinner is shown
  store,           \* localStorage entry 'cf_prefs'
  geoPending,      \* getCurrentPosition requests not yet answered
  armed,           \* tempClick listeners registered on the map
  searches,        \* in-flight searches, each awaiting one network call
  uncaught         \* exception that escaped the latest handler, or "none"

vars == <<allCafes, filteredCafes, selectedCafeId, cafeLayer, idToMarker,
          cardList, idToCard, userMarker, searchInput, radius, summary,
          spinner, store, geoPending, armed, searches, uncaught>>

-----------------------------------------------------------------------------
(* Bounds of the model *)

\* longest element list an Overpass response carries
MaxElems == 2
\* most searches in flight, and most pending geolocation requests or armed
\* map-click listeners, at one time
MaxSearches == 2

-----------------------------------------------------------------------------
(* JavaScript values *)

Undef == <<>>
NaN == <<>>
UndefStr == <<"undefined">>
NoId == ""

\* x is truthy: neither undefined nor 0
Truthy(x) == x # Undef /\ x # <<0>>

\* s || d for strings: undefined and '' are falsy
OrStr(s, d) == IF s = UndefStr \/ s = <<>> THEN d ELSE s

\* String(id) of a numeric id
IdString(id) == ToString(id)

UpperChars == <<"A", "B", "C", "D", "E", "F", "G", "H", "I", "J", "K", "L", "M",
                "N", "O", "P", "Q", "R", "S", "T", "U", "V", "W", "X", "Y", "Z">>
LowerChars == <<"a", "b", "c", "d", "e", "f", "g", "h", "i", "j", "k", "l", "m",
                "n", "o", "p", "q", "r", "s", "t", "u", "v", "w", "x", "y", "z">>

LowerChar(c) ==
  IF \E i \in 1..Len(UpperChars) : UpperChars[i] = c
  THEN LowerChars[CHOOSE i \in 1..Len(UpperChars) : UpperChars[i] = c]
  ELSE c

\* String.prototype.toLowerCase
toLowerCase(s) == [i \in 1..Len(s) |-> LowerChar(s[i])]

IsSpace(c) == c = " "

\* String.prototype.trim
RECURSIVE trimStart(_)
trimStart(s) ==
  IF s # <<>> /\ IsSpace(Head(s)) THEN trimStart(Tail(s)) ELSE s

RECURSIVE trimEnd(_)
trimEnd(s) ==
  IF s # <<>> /\ IsSpace(s[Len(s)]) THEN trimEnd(SubSeq(s, 1, Len(s) - 1)) ELSE s

trim(s) == trimEnd(trimStart(s))

\* String.prototype.includes
includes(s, q) ==
  \E i \in 0..(Len(s) - Len(q)) : SubSeq(s, i + 1, i + Len(q)) = q

\* Array.prototype.join(', ') of strings
RECURSIVE joinComma(_)
joinComma(parts) ==
  IF parts = <<>> THEN <<>>
  ELSE IF Len(parts) = 1 THEN parts[1]
  ELSE parts[1] \o <<",", " ">> \o joinComma(Tail(parts))

\* obj.f of an object that may lack the field
GetNum(obj, f) == IF f \in DOMAIN obj THEN obj[f] ELSE Undef
GetStr(obj, f) == IF f \in DOMAIN obj THEN obj[f] ELSE UndefStr

-----------------------------------------------------------------------------
(* Geometry *)

\* haversineDistance on whole degrees 0..2, in metres rounded to the metre:
\* HavTable[lat1 + 1][lat2 + 1][|lon2 - lon1| + 1], R = 6371e3
HavTable ==
  << << <<0, 111195, 222390>>, <<111195, 157249, 248629>>, <<222390, 248629, 314475>> >>,
     << <<111195, 157249, 248629>>, <<0, 111178, 222356>>, <<111195, 157225, 248569>> >>,
     << <<222390, 248629, 314475>>, <<111195, 157225, 248569>>, <<0, 111127, 222254>> >> >>

Abs(x) == IF x < 0 THEN -x ELSE x

\* lat1, lon1 are numbers; lat2, lon2 may be undefined, and then every
\* intermediate value and the result are NaN
haversineDistance(lat1, lon1, lat2, lon2) ==
  IF lat2 = Undef \/ lon2 = Undef THEN NaN
  ELSE <<HavTable[lat1 + 1][lat2[1] + 1][Abs(lon2[1] - lon1) + 1]>>

-----------------------------------------------------------------------------
(* Data loading *)

sAb == <<"A", "b">>
sCd == <<"C", "d">>
sBay == <<"B", "a", "y">>
sGoa == <<"G", "o", "a">>
sCafe == <<"C", "a", "f", "e">>

\* Elements the Overpass interpreter may return for `out tags center`: a node
\* carries lat and lon, a way or relation carries center {lat, lon}; ids are
\* unique per element type only.
NodeOne ==
  [type |-> "node", id |-> 1, lat |-> <<1>>, lon |-> <<1>>,
   tags |-> [name |-> sAb, addr_city |-> sGoa]]
NodeTwo ==
  [type |-> "node", id |-> 2, lat |-> <<2>>, lon |-> <<2>>,
   tags |-> [addr_suburb |-> sBay, addr_city |-> sGoa]]
WayOne ==
  [type |-> "way", id |-> 1, center |-> [lat |-> <<1>>, lon |-> <<2>>],
   tags |-> [name |-> sCd]]
RelationThree ==
  [type |-> "relation", id |-> 3, tags |-> [name |-> sBay]]

OverpassElements == {NodeOne, NodeTwo, WayOne, RelationThree}

\* data.elements of a response: distinct elements, at most MaxElems of them
ElementLists ==
  UNION {{s \in [1..n -> OverpassElements] :
            \A i, j \in 1..n : i # j => s[i] # s[j]} : n \in 0..MaxElems}

\* lines 216-217: the coordinates of an element, <<>> for null
ElementLatLng(el) ==
  LET nlat == GetNum(el, "lat")
      nlon == GetNum(el, "lon")
  IN IF Truthy(nlat) /\ Truthy(nlon) THEN <<[lat |-> nlat, lng |-> nlon]>>
     ELSE IF "center" \in DOMAIN el THEN <<el.center>>
     ELSE <<>>

\* lines 219-221
AddressParts(tags) ==
  LET all == <<GetStr(tags, "addr_housename"), GetStr(tags, "addr_housenumber"),
               GetStr(tags, "addr_street"), GetStr(tags, "addr_suburb"),
               GetStr(tags, "addr_city")>>
  IN joinComma(SelectSeq(all, LAMBDA p : p # UndefStr /\ p # <<>>))

\* lines 222-230: the cafe record of an element that has coordinates
NormalizeElement(el) ==
  LET latLng == ElementLatLng(el)[1]
  IN [id |-> IdString(el.id),
      name |-> OrStr(GetStr(el.tags, "name"), sCafe),
      area |-> OrStr(GetStr(el.tags, "addr_suburb"),
                     OrStr(GetStr(el.tags, "addr_city"), <<>>)),
      address |-> AddressParts(el.tags),
      contact |-> OrStr(GetStr(el.tags, "contact_phone"),
                        OrStr(GetStr(el.tags, "phone"), <<>>)),
      lat |-> GetNum(latLng, "lat"),
      lng |-> GetNum(latLng, "lng")]

\* lines 214-232: elements.map(...).filter(Boolean)
RECURSIVE NormalizeElements(_)
NormalizeElements(elements) ==
  IF elements = <<>> THEN <<>>
  ELSE IF ElementLatLng(Head(elements)) = <<>>
       THEN NormalizeElements(Tail(elements))
       ELSE <<NormalizeElement(Head(elements))>> \o NormalizeElements(Tail(elements))

\* Records of ./data/cafes.json: {id, name, area?, location?, contact?, lat,
\* lng, rating?}
FallbackItems ==
  << [id |-> 1, name |-> sAb, area |-> sBay, location |-> sGoa,
      lat |-> <<2>>, lng |-> <<2>>, rating |-> <<4>>],
     [id |-> 2, name |-> sCd, lat |-> <<1>>, lng |-> <<1>>],
     [id |-> 3, name |-> sBay, area |-> sGoa, lat |-> <<1>>, lng |-> <<2>>] >>

\* lines 239-248
NormalizeFallbackItem(c) ==
  [id |-> IdString(c.id),
   name |-> GetStr(c, "name"),
   area |-> OrStr(GetStr(c, "area"), <<>>),
   address |-> OrStr(GetStr(c, "location"), <<>>),
   contact |-> OrStr(GetStr(c, "contact"), <<>>),
   lat |-> GetNum(c, "lat"),
   lng |-> GetNum(c, "lng"),
   rating |-> GetNum(c, "rating")]

NormalizeFallback(items) == [i \in 1..Len(items) |-> NormalizeFallbackItem(items[i])]

\* line 253: c.distanceMeters = haversineDistance(originLat, originLng, c.lat, c.lng)
WithDistance(c, originLat, originLng) ==
  [f \in DOMAIN c \cup {"distanceMeters"} |->
     IF f = "distanceMeters"
     THEN haversineDistance(originLat, originLng, c.lat, c.lng)
     ELSE c[f]]

\* line 255: (a.distanceMeters ?? Infinity) - (b.distanceMeters ?? Infinity);
\* a NaN operand makes the difference NaN, which sort reads as +0
CompareDistance(a, b) ==
  IF a.distanceMeters = NaN \/ b.distanceMeters = NaN THEN 0
  ELSE a.distanceMeters[1] - b.distanceMeters[1]

RECURSIVE InsertByDistance(_, _)
InsertByDistance(x, s) ==
  IF s = <<>> THEN <<x>>
  ELSE IF CompareDistance(Head(s), x) <= 0
       THEN <<Head(s)>> \o InsertByDistance(x, Tail(s))
       ELSE <<x>> \o s

\* Array.prototype.sort with a consistent comparator: the stable ascending order
RECURSIVE StableSort(_)
StableSort(s) ==
  IF s = <<>> THEN <<>>
  ELSE InsertByDistance(s[Len(s)], StableSort(SubSeq(s, 1, Len(s) - 1)))

\* The comparator of line 255 is a consistent comparator unless the array holds
\* a NaN distance together with two different numbers.
ConsistentComparator(s) ==
  ~ (/\ \E i \in 1..Len(s) : s[i].distanceMeters = NaN
     /\ \E i, j \in 1..Len(s) :
          /\ s[i].distanceMeters # NaN
          /\ s[j].distanceMeters # NaN
          /\ s[i].distanceMeters # s[j].distanceMeters)

Reorderings(s) ==
  {[i \in 1..Len(s) |-> s[p[i]]] :
     p \in {q \in [1..Len(s) -> 1..Len(s)] :
              \A i, j \in 1..Len(s) : i # j => q[i] # q[j]}}

\* Array.prototype.sort: with an inconsistent comparator the order is
\* implementation-defined, any reordering of the array
SortOutcomes(s) ==
  IF ConsistentComparator(s) THEN {StableSort(s)} ELSE Reorderings(s)

\* lines 251-256: the arrays attachDistances may leave behind
attachDistances(cafes, originLat, originLng) ==
  SortOutcomes([i \in 1..Len(cafes) |-> WithDistance(cafes[i], originLat, originLng)])

-----------------------------------------------------------------------------
(* Rendering *)

Min(S) == CHOOSE x \in S : \A y \in S : x <= y
Max(S) == CHOOSE x \in S : \A y \in S : x >= y

\* registry built by assigning reg[ids[i]] = i for i = 1, 2, ...: a later
\* entry with the same id replaces the earlier one
Registry(ids) ==
  [id \in {ids[i] : i \in 1..Len(ids)} |-> Max({i \in 1..Len(ids) : ids[i] = id})]

EmptyRegistry == Registry(<<>>)

\* line 129: L.marker([cafe.lat, cafe.lng]) throws 'Invalid LatLng object' when
\* a coordinate is undefined (isNaN(undefined))
InvalidLatLng(cafe) == cafe.lat = Undef \/ cafe.lng = Undef

\* lines 109-135: the markers added before the first cafe whose marker cannot
\* be built, and whether that exception was thrown
renderMarkers(cafes) ==
  LET bad == {i \in 1..Len(cafes) : InvalidLatLng(cafes[i])}
      n == IF bad = {} THEN Len(cafes) ELSE Min(bad) - 1
      layer == [i \in 1..n |-> cafes[i].id]
  IN [cafeLayer |-> layer, idToMarker |-> Registry(layer), threw |-> bad # {}]

\* lines 141-147: the 'No cafes found' card, which has no id
EmptyCard == [id |-> NoId, selected |-> FALSE]

\* lines 137-181
renderList(cafes) ==
  IF Len(cafes) = 0
  THEN [cardList |-> <<EmptyCard>>, idToCard |-> EmptyRegistry]
  ELSE [cardList |-> [i \in 1..Len(cafes) |-> [id |-> cafes[i].id, selected |-> FALSE]],
        idToCard |-> Registry([i \in 1..Len(cafes) |-> cafes[i].id])]

\* line 72: a status text (the ellipsis character is written ...)
Message(text) == [text |-> text, n |-> 0, q |-> <<>>]
\* `${n} cafe(s) found`
FoundMessage(n) == [text |-> "cafe(s) found", n |-> n, q |-> <<>>]
\* `${n} result(s) for "${q}"`
ResultsMessage(n, q) == [text |-> "result(s) for", n |-> n, q |-> q]

\* lines 183-188: the view after updateUI(cafes, from), starting from the view
\* `old`; when renderMarkers throws, the list and the summary stay as they were
updateUI(old, cafes, from) ==
  LET m == renderMarkers(cafes)
      l == renderList(cafes)
  IN IF m.threw
     THEN [filteredCafes |-> cafes, cafeLayer |-> m.cafeLayer,
           idToMarker |-> m.idToMarker, cardList |-> old.cardList,
           idToCard |-> old.idToCard, summary |-> old.summary, threw |-> TRUE]
     ELSE [filteredCafes |-> cafes, cafeLayer |-> m.cafeLayer,
           idToMarker |-> m.idToMarker, cardList |-> l.cardList,
           idToCard |-> l.idToCard,
           summary |-> IF from # "search" THEN FoundMessage(Len(cafes)) ELSE old.summary,
           threw |-> FALSE]

\* the view part of the state
View ==
  [filteredCafes |-> filteredCafes, cafeLayer |-> cafeLayer,
   idToMarker |-> idToMarker, cardList |-> cardList, idToCard |-> idToCard,
   summary |-> summary, threw |-> FALSE]

\* selectCafe without line 91: the other cards keep their highlight
SelectCards_KeepsOthers(cards, reg, cafeId) ==
  [i \in 1..Len(cards) |->
     IF cafeId \in DOMAIN reg /\ reg[cafeId] = i
     THEN [cards[i] EXCEPT !.selected = TRUE]
     ELSE cards[i]]

\* line 91 and lines 92-96: the cards after selectCafe(cafeId)
SelectCards(cards, reg, cafeId) ==
  [i \in 1..Len(cards) |->
     IF cafeId \in DOMAIN reg /\ reg[cafeId] = i
     THEN [cards[i] EXCEPT !.selected = TRUE]
     ELSE IF \E k \in DOMAIN reg : reg[k] = i
          THEN [cards[i] EXCEPT !.selected = FALSE]
          ELSE cards[i]]

\* a filter that looks into the address as well
Matches_AlsoAddress(c, q) ==
  \/ includes(toLowerCase(OrStr(c.name, <<>>)), q)
  \/ includes(toLowerCase(OrStr(c.area, <<>>)), q)
  \/ includes(toLowerCase(OrStr(c.address, <<>>)), q)

\* lines 356-359
Matches(c, q) ==
  \/ includes(toLowerCase(OrStr(c.name, <<>>)), q)
  \/ includes(toLowerCase(OrStr(c.area, <<>>)), q)

\* line 350
Query(value) == toLowerCase(trim(value))

\* lines 351-359: the array handleSearchInput hands to updateUI
SearchMatches(cafes, value) ==
  IF Query(value) = <<>> THEN cafes
  ELSE SelectSeq(cafes, LAMBDA c : Matches(c, Query(value)))

-----------------------------------------------------------------------------
(* Preferences *)

\* localStorage.getItem('cf_prefs'): no entry, an entry that is not JSON, or
\* the JSON of an object {radius?, lastLat?, lastLng?}
NoEntry == [kind |-> "none", radius |-> Undef, lastLat |-> Undef, lastLng |-> Undef]
Malformed == [kind |-> "malformed", radius |-> Undef, lastLat |-> Undef, lastLng |-> Undef]
Stored(r, lat, lng) == [kind |-> "json", radius |-> r, lastLat |-> lat, lastLng |-> lng]

\* line 397: JSON.parse(localStorage.getItem('cf_prefs') || '{}') throws on an
\* entry that is not JSON
ParseThrows(entry) == entry.kind = "malformed"

PrefKeys == {"radius", "lastLat", "lastLng"}

\* savePrefs that writes the partial alone
MergePrefs_Overwrites(entry, partial) ==
  [f \in {"kind"} \cup PrefKeys |->
     IF f = "kind" THEN "json"
     ELSE IF f \in DOMAIN partial THEN partial[f]
     ELSE Undef]

\* lines 397-398: { ...p, ...partial } written back
MergePrefs(entry, partial) ==
  [f \in {"kind"} \cup PrefKeys |->
     IF f = "kind" THEN "json"
     ELSE IF f \in DOMAIN partial THEN partial[f]
     ELSE entry[f]]

\* lines 396-399: the entry after savePrefs(partial), and whether it threw
savePrefs(entry, partial) ==
  IF ParseThrows(entry) THEN [store |-> entry, threw |-> TRUE]
  ELSE [store |-> MergePrefs(entry, partial), threw |-> FALSE]

\* lines 258-265 as wrapped at line 404: _placeOrUpdate(lat, lng), then
\* savePrefs({ lastLat: lat, lastLng: lng })
placeOrUpdateUserMarker(entry, lat, lng) ==
  LET saved == savePrefs(entry, [lastLat |-> <<lat>>, lastLng |-> <<lng>>])
  IN [userMarker |-> <<[lat |-> lat, lng |-> lng]>>,
      store |-> saved.store, threw |-> saved.threw]

DefaultRadius == 1000
RadiusOptions == {DefaultRadius, 2000}

\* lines 386-395: the radius, the user marker and the entry after loadPrefs();
\* whatever is thrown inside is swallowed by its catch
loadPrefs(entry) ==
  LET r == IF ParseThrows(entry) \/ ~ Truthy(entry.radius)
           THEN DefaultRadius
           ELSE IF entry.radius[1] \in RadiusOptions THEN entry.radius[1] ELSE 0
      restore == ~ ParseThrows(entry) /\ Truthy(entry.lastLat) /\ Truthy(entry.lastLng)
      placed == placeOrUpdateUserMarker(entry, entry.lastLat[1], entry.lastLng[1])
  IN [radius |-> r,
      userMarker |-> IF restore THEN placed.userMarker ELSE <<>>,
      store |-> IF restore THEN placed.store ELSE entry]

-----------------------------------------------------------------------------
(* Inputs *)

\* positions geolocation reports and points the user clicks on the map
Points == {[lat |-> 1, lng |-> 1], [lat |-> 2, lng |-> 2]}

\* texts typed into the search box
SearchTexts == {<<>>, <<" ">>, <<" ", "B">>, <<"o", "a">>}

\* what localStorage holds under 'cf_prefs' when the page loads
InitialEntries == {NoEntry, Malformed, Stored(<<2000>>, <<2>>, <<2>>)}

\* line 43: selectedCafeId = null
NullId == "null"

-----------------------------------------------------------------------------
(* State machine *)

\* lines 9-47 and 406-413: the state once the script has run
Init ==
  \E entry \in InitialEntries :
    LET loaded == loadPrefs(entry)
    IN /\ allCafes = <<>>
       /\ filteredCafes = <<>>
       /\ selectedCafeId = NullId
       /\ cafeLayer = <<>>
       /\ idToMarker = EmptyRegistry
       /\ cardList = <<>>
       /\ idToCard = EmptyRegistry
       /\ userMarker = loaded.userMarker
       /\ searchInput = <<>>
       /\ radius = loaded.radius
       /\ summary = Message("Ready when you are.")
       /\ spinner = FALSE
       /\ store = loaded.store
       /\ geoPending = 0
       /\ armed = 0
       /\ searches = <<>>
       /\ uncaught = "none"

\* geolocation requests, armed listeners and searches that exist
Pending == geoPending + armed + Len(searches)

SetView(ui) ==
  /\ filteredCafes' = ui.filteredCafes
  /\ cafeLayer' = ui.cafeLayer
  /\ idToMarker' = ui.idToMarker
  /\ cardList' = ui.cardList
  /\ idToCard' = ui.idToCard

viewVars == <<filteredCafes, cafeLayer, idToMarker, cardList, idToCard>>

RemoveAt(s, i) == SubSeq(s, 1, i - 1) \o SubSeq(s, i + 1, Len(s))

\* lines 283-286 and 324-327: a search that has issued its Overpass request
NewSearch(lat, lng) ==
  [lat |-> lat, lng |-> lng, pc |-> "primary", err |-> "none", before |-> allCafes]

\* lines 270-276 and 277, 308-312: the click on Find Near Me
HandleFindNearMe ==
  /\ Pending < MaxSearches
  /\ summary' = Message("Locating you...")
  /\ geoPending' = geoPending + 1
  /\ uncaught' = "none"
  /\ UNCHANGED <<allCafes, viewVars, selectedCafeId, userMarker, searchInput,
                 radius, spinner, store, armed, searches>>

\* lines 277-286: the geolocation success callback, up to its first await
GeoSuccess(points) ==
  \E p \in points :
    LET placed == placeOrUpdateUserMarker(store, p.lat, p.lng)
    IN /\ geoPending > 0
       /\ geoPending' = geoPending - 1
       /\ userMarker' = placed.userMarker
       /\ store' = placed.store
       /\ IF placed.threw
          THEN /\ uncaught' = "storage"
               /\ UNCHANGED <<spinner, summary, searches>>
          ELSE /\ uncaught' = "none"
               /\ spinner' = TRUE
               /\ summary' = Message("Searching nearby cafes...")
               /\ searches' = Append(searches, NewSearch(p.lat, p.lng))
       /\ UNCHANGED <<allCafes, viewVars, selectedCafeId, searchInput, radius, armed>>

\* lines 304-308: the geolocation error callback
GeoError ==
  /\ geoPending > 0
  /\ geoPending' = geoPending - 1
  /\ summary' = Message("Location permission needed. Or use Pick on Map.")
  /\ uncaught' = "none"
  /\ UNCHANGED <<allCafes, viewVars, selectedCafeId, userMarker, searchInput,
                 radius, spinner, store, armed, searches>>

\* lines 316-317 and 346: the click on Pick on Map registers one more listener
HandlePickOnMap ==
  /\ Pending < MaxSearches
  /\ summary' = Message("Click on the map to set your location...")
  /\ armed' = armed + 1
  /\ uncaught' = "none"
  /\ UNCHANGED <<allCafes, viewVars, selectedCafeId, userMarker, searchInput,
                 radius, spinner, store, geoPending, searches>>

\* lines 318-327: a click on the map runs every registered tempClick, each up
\* to its first await
MapClick(points) ==
  \E p \in points :
    LET placed == placeOrUpdateUserMarker(store, p.lat, p.lng)
    IN /\ armed > 0
       /\ armed' = 0
       /\ userMarker' = placed.userMarker
       /\ store' = placed.store
       /\ IF placed.threw
          THEN /\ uncaught' = "storage"
               /\ UNCHANGED <<spinner, summary, searches>>
          ELSE /\ uncaught' = "none"
               /\ spinner' = TRUE
               /\ summary' = Message("Searching nearby cafes...")
               /\ searches' = searches \o [k \in 1..armed |-> NewSearch(p.lat, p.lng)]
       /\ UNCHANGED <<allCafes, viewVars, selectedCafeId, searchInput, radius, geoPending>>

\* What the Overpass request of a search may come to: fetch (or res.json())
\* rejects, the status is not OK, or the body parses to elements (a body
\* without an elements array counts as the empty list, line 212)
PrimaryOutcomes ==
  {[kind |-> k, elements |-> <<>>] : k \in {"rejected", "notOk"}}
    \cup {[kind |-> "ok", elements |-> e] : e \in ElementLists}

\* the exception fetchOverpassCafes or line 287 throws for an outcome, "none"
\* when the try block goes on with a non-empty array
PrimaryError(outcome) ==
  CASE outcome.kind = "rejected" -> "Failed to fetch"
    [] outcome.kind = "notOk" -> "Overpass error"
    [] OTHER -> IF Len(NormalizeElements(outcome.elements)) = 0
                THEN "No Overpass results" ELSE "none"

\* lines 205-232 and 287: what the try block has after the awaited query,
\* the exception thrown (or "none") and the normalized cafes
PrimaryResult(outcome) ==
  [err |-> PrimaryError(outcome),
   cafes |-> IF PrimaryError(outcome) = "none"
             THEN NormalizeElements(outcome.elements) ELSE <<>>]

\* every result of the awaited query
PrimaryResults == {PrimaryResult(o) : o \in PrimaryOutcomes}

\* lines 286-294, 303 and 327-335, 344: the Overpass request of search i
\* settles and the search runs to its next await or to its end
PrimaryResponse(results) ==
  \E i \in 1..Len(searches), result \in results :
    LET s == searches[i]
    IN /\ s.pc = "primary"
       /\ uncaught' = "none"
       /\ IF result.err # "none"
          THEN /\ searches' = [searches EXCEPT ![i].pc = "fallback",
                                               ![i].err = result.err]
               /\ UNCHANGED <<allCafes, viewVars, summary, spinner>>
          ELSE \E sorted \in attachDistances(result.cafes, s.lat, s.lng) :
                 LET ui == updateUI(View, sorted, "fetch")
                 IN /\ allCafes' = sorted
                    /\ SetView(ui)
                    /\ summary' = ui.summary
                    /\ IF ui.threw
                       THEN /\ searches' = [searches EXCEPT
                                              ![i].pc = "fallback",
                                              ![i].err = "Invalid LatLng object"]
                            /\ UNCHANGED spinner
                       ELSE /\ searches' = RemoveAt(searches, i)
                            /\ spinner' = FALSE
       /\ UNCHANGED <<selectedCafeId, userMarker, searchInput, radius, store,
                      geoPending, armed>>

\* What the request for ./data/cafes.json may come to: fetch rejects, the
\* status is not OK, the body is not JSON, the body is JSON but no array
\* (items.map is not a function), or the body is the array of records
FallbackOutcomes ==
  {[kind |-> k, items |-> <<>>] : k \in {"rejected", "notOk", "badJson", "notArray"}}
    \cup {[kind |-> "ok", items |-> FallbackItems]}

\* lines 294-303 and 335-344: the fallback request of search i settles and
\* the search runs to its end
FallbackResponse(outcomes) ==
  \E i \in 1..Len(searches), outcome \in outcomes :
    LET s == searches[i]
    IN /\ s.pc = "fallback"
       /\ uncaught' = "none"
       /\ searches' = RemoveAt(searches, i)
       /\ spinner' = FALSE
       /\ IF outcome.kind # "ok"
          THEN /\ summary' = Message("Could not load cafes.")
               /\ UNCHANGED <<allCafes, viewVars>>
          ELSE \E sorted \in attachDistances(NormalizeFallback(outcome.items), s.lat, s.lng) :
                 LET ui == updateUI(View, sorted, "fetch")
                 IN /\ allCafes' = sorted
                    /\ SetView(ui)
                    /\ summary' = IF ui.threw THEN Message("Could not load cafes.")
                                  ELSE Message("Showing fallback cafes")
       /\ UNCHANGED <<selectedCafeId, userMarker, searchInput, radius, store,
                      geoPending, armed>>

\* lines 349-362: the user changes the text of the search box
HandleSearchInput(texts) ==
  \E value \in texts :
    LET matches == SearchMatches(allCafes, value)
        ui == updateUI(View, matches, "search")
    IN /\ value # searchInput
       /\ searchInput' = value
       /\ SetView(ui)
       /\ IF ui.threw
          THEN /\ uncaught' = "render"
               /\ UNCHANGED summary
          ELSE /\ uncaught' = "none"
               /\ summary' = IF Query(value) = <<>>
                             THEN FoundMessage(Len(allCafes))
                             ELSE ResultsMessage(Len(matches), Query(value))
       /\ UNCHANGED <<allCafes, selectedCafeId, userMarker, radius, spinner, store,
                      geoPending, armed, searches>>

\* handleReset without clearCafes' line 86: the selection survives
HandleReset_KeepsSelection ==
  /\ searchInput' = <<>>
  /\ radius' = DefaultRadius
  /\ cafeLayer' = <<>>
  /\ idToMarker' = EmptyRegistry
  /\ idToCard' = EmptyRegistry
  /\ cardList' = <<>>
  /\ userMarker' = <<>>
  /\ summary' = Message("Ready when you are.")
  /\ uncaught' = "none"
  /\ UNCHANGED <<allCafes, filteredCafes, selectedCafeId, spinner, store,
                 geoPending, armed, searches>>

\* lines 364-374 with clearCafes, lines 81-87
HandleReset ==
  /\ searchInput' = <<>>
  /\ radius' = DefaultRadius
  /\ cafeLayer' = <<>>
  /\ idToMarker' = EmptyRegistry
  /\ idToCard' = EmptyRegistry
  /\ cardList' = <<>>
  /\ selectedCafeId' = NullId
  /\ userMarker' = <<>>
  /\ summary' = Message("Ready when you are.")
  /\ uncaught' = "none"
  /\ UNCHANGED <<allCafes, filteredCafes, spinner, store, geoPending, armed, searches>>

\* selectCafe that keeps the selection when the id has no card
selectCafe_OnlyKnown(cafeId) ==
  /\ cardList' = SelectCards(cardList, idToCard, cafeId)
  /\ selectedCafeId' = IF cafeId \in DOMAIN idToCard THEN cafeId ELSE selectedCafeId
  /\ uncaught' = "none"
  /\ UNCHANGED <<allCafes, filteredCafes, cafeLayer, idToMarker, idToCard,
                 userMarker, searchInput, radius, summary, spinner, store,
                 geoPending, armed, searches>>

\* lines 89-104: selectCafe(cafeId, fly)
selectCafe(cafeId) ==
  /\ cardList' = SelectCards(cardList, idToCard, cafeId)
  /\ selectedCafeId' = cafeId
  /\ uncaught' = "none"
  /\ UNCHANGED <<allCafes, filteredCafes, cafeLayer, idToMarker, idToCard,
                 userMarker, searchInput, radius, summary, spinner, store,
                 geoPending, armed, searches>>

\* line 176: a click on a cafe card
CardClick ==
  \E i \in 1..Len(cardList) :
    /\ cardList[i].id # NoId
    /\ selectCafe(cardList[i].id)

\* line 131: a click on a cafe marker
MarkerClick ==
  \E i \in 1..Len(cafeLayer) : selectCafe(cafeLayer[i])

\* line 400: the user picks another radius
RadiusChange ==
  \E r \in RadiusOptions :
    LET saved == savePrefs(store, [radius |-> <<r>>])
    IN /\ r # radius
       /\ radius' = r
       /\ store' = saved.store
       /\ uncaught' = IF saved.threw THEN "storage" ELSE "none"
       /\ UNCHANGED <<allCafes, viewVars, selectedCafeId, userMarker, searchInput,
                      summary, spinner, geoPending, armed, searches>>

\* The user starts no search while a geolocation request, an armed map click
\* or a search is outstanding
Quiet == Pending = 0

\* one point and two texts where neither distances nor the filter are the
\* subject
OnePoint == {[lat |-> 1, lng |-> 1]}
FewTexts == {<<>>, <<"o", "a">>}

\* The page with one search at a time
Next ==
  \/ Quiet /\ HandleFindNearMe
  \/ GeoSuccess(OnePoint)
  \/ GeoError
  \/ Quiet /\ HandlePickOnMap
  \/ MapClick(OnePoint)
  \/ PrimaryResponse(PrimaryResults)
  \/ FallbackResponse(FallbackOutcomes)
  \/ HandleSearchInput(FewTexts)
  \/ HandleReset
  \/ CardClick
  \/ MarkerClick
  \/ RadiusChange

Spec == Init /\ [][Next]_vars

\* Searches, one at a time, and the search box with every text
NextFilter ==
  \/ Quiet /\ HandleFindNearMe
  \/ GeoSuccess(Points)
  \/ GeoError
  \/ Quiet /\ HandlePickOnMap
  \/ MapClick(Points)
  \/ PrimaryResponse(PrimaryResults)
  \/ FallbackResponse(FallbackOutcomes)
  \/ HandleSearchInput(SearchTexts)

SpecFilter == Init /\ [][NextFilter]_vars

\* Searches alone, overlapping freely, on one point and a few responses
OverlapPrimaryResults ==
  {PrimaryResult([kind |-> "rejected", elements |-> <<>>]),
   PrimaryResult([kind |-> "ok", elements |-> <<NodeOne>>])}
OverlapFallbackOutcomes ==
  {[kind |-> "notOk", items |-> <<>>], [kind |-> "ok", items |-> FallbackItems]}

NextOverlap ==
  \/ HandleFindNearMe
  \/ GeoSuccess(OnePoint)
  \/ GeoError
  \/ HandlePickOnMap
  \/ MapClick(OnePoint)
  \/ PrimaryResponse(OverlapPrimaryResults)
  \/ FallbackResponse(OverlapFallbackOutcomes)

SpecOverlap == Init /\ [][NextOverlap]_vars

\* Searches one at a time on one point and a few responses, where every
\* geolocation request is answered (its timeout is 10 s, line 310) and every
\* network call settles
NextLive ==
  \/ Quiet /\ HandleFindNearMe
  \/ GeoSuccess(OnePoint)
  \/ GeoError
  \/ Quiet /\ HandlePickOnMap
  \/ MapClick(OnePoint)
  \/ PrimaryResponse(OverlapPrimaryResults)
  \/ FallbackResponse(OverlapFallbackOutcomes)
  \/ HandleReset

SpecLive ==
  /\ Init /\ [][NextLive]_vars
  /\ WF_vars(GeoSuccess(OnePoint) \/ GeoError)
  /\ WF_vars(PrimaryResponse(OverlapPrimaryResults))
  /\ WF_vars(FallbackResponse(OverlapFallbackOutcomes))

\* lines 98-102: what selectCafe(cafeId, fly) asks of the map
MarkerEffects(reg, cafeId, fly) ==
  [openPopup |-> cafeId \in DOMAIN reg,
   flyTo |-> cafeId \in DOMAIN reg /\ fly]

\* ids selectCafe is called with: ids of cafes, and an id of no cafe
SelectIds == {"1", "2", "3", "7"}

\* lines 89-104: selectCafe called with any id, as by a caller that holds the
\* id of a cafe no longer shown
SelectCafeCall ==
  \E id \in SelectIds : selectCafe(id)

\* Searches one at a time, the search box, and selectCafe with any id
NextSelect ==
  \/ Quiet /\ HandleFindNearMe
  \/ GeoSuccess(OnePoint)
  \/ GeoError
  \/ Quiet /\ HandlePickOnMap
  \/ MapClick(OnePoint)
  \/ PrimaryResponse(OverlapPrimaryResults)
  \/ FallbackResponse(OverlapFallbackOutcomes)
  \/ HandleSearchInput(FewTexts)
  \/ SelectCafeCall

SpecSelect == Init /\ [][NextSelect]_vars

-----------------------------------------------------------------------------
(* Claims *)

\* the exceptions with which the Overpass query of a search fails: fetch
\* rejected, the status was not OK, no element had coordinates
PrimaryFailures == {"Failed to fetch", "Overpass error", "No Overpass results"}

\* the arrays a successful load of the fallback file leaves in allCafes for a
\* search around (lat, lng)
FallbackRecords(lat, lng) ==
  attachDistances(NormalizeFallback(FallbackItems), lat, lng)

\* C1: a search loads the fallback dataset if and only if its Overpass query
\* threw, was not OK or gave no normalized cafe; and a search that was loading
\* the fallback ends either failed or with allCafes the fallback records and
\* the message 'Showing fallback cafes'.
C1_FallbackIffPrimaryFailed ==
  [][/\ \A i \in 1..Len(searches') :
          searches'[i].pc = "fallback" <=> searches'[i].err \in PrimaryFailures
     /\ \A i \in 1..Len(searches) :
          (searches[i].pc = "fallback" /\ searches' = RemoveAt(searches, i)) =>
             \/ /\ summary' = Message("Could not load cafes.")
                /\ allCafes' = allCafes
             \/ /\ summary' = Message("Showing fallback cafes")
                /\ allCafes' \in FallbackRecords(searches[i].lat, searches[i].lng)]_vars

\* C2: a search whose Overpass query failed and whose fallback load fails too
\* ends with the message 'Could not load cafes.', starts nothing further, and
\* leaves allCafes exactly as it was before the search started.
C2_FailedSearchLeavesCafes ==
  [][\A i \in 1..Len(searches) :
       (/\ searches[i].pc = "fallback"
        /\ searches[i].err \in PrimaryFailures
        /\ searches' = RemoveAt(searches, i)
        /\ summary' # Message("Showing fallback cafes")) =>
          /\ summary' = Message("Could not load cafes.")
          /\ geoPending' = geoPending /\ armed' = armed
          /\ allCafes' = searches[i].before]_vars

\* C3: no record of allCafes has an undefined lat or lng.
C3_CoordinatesDefined ==
  \A i \in 1..Len(allCafes) : allCafes[i].lat # Undef /\ allCafes[i].lng # Undef

\* a <= b for numbers that may be NaN: every comparison with NaN is false
Leq(a, b) == a # NaN /\ b # NaN /\ a[1] <= b[1]

\* C4: every record of allCafes has a distanceMeters and the distances are in
\* non-decreasing order.
C4_SortedByDistance ==
  /\ \A i \in 1..Len(allCafes) : "distanceMeters" \in DOMAIN allCafes[i]
  /\ \A i \in 1..(Len(allCafes) - 1) :
       Leq(allCafes[i].distanceMeters, allCafes[i + 1].distanceMeters)

DistinctIds(cafes) ==
  \A i, j \in 1..Len(cafes) : i # j => cafes[i].id # cafes[j].id

\* C5: the ids of allCafes, and of filteredCafes, are pairwise distinct.
C5_IdsDistinct == DistinctIds(allCafes) /\ DistinctIds(filteredCafes)

\* a and b are the same letter, in either case
SameLetter(a, b) ==
  \/ a = b
  \/ \E k \in 1..Len(UpperChars) : {a, b} = {UpperChars[k], LowerChars[k]}

\* the text without the blanks around it
Core(text) ==
  LET solid == {i \in 1..Len(text) : text[i] # " "}
  IN IF solid = {} THEN <<>> ELSE SubSeq(text, Min(solid), Max(solid))

\* q occurs in field, whatever the case of the letters
OccursIn(q, field) ==
  \E k \in 0..(Len(field) - Len(q)) :
    \A j \in 1..Len(q) : SameLetter(field[k + j], q[j])

TextOf(x) == IF x = UndefStr THEN <<>> ELSE x

\* the cafes a search text keeps: all of them for a blank text, else those
\* whose name or area holds the text
Keeps(c, text) ==
  \/ Core(text) = <<>>
  \/ OccursIn(Core(text), TextOf(c.name))
  \/ OccursIn(Core(text), TextOf(c.area))

\* the kept cafes, in the order they have in cafes
ExpectedFilter(cafes, text) ==
  LET keep == {i \in 1..Len(cafes) : Keeps(cafes[i], text)}
      nth(k) == CHOOSE i \in keep : Cardinality({j \in keep : j < i}) = k - 1
  IN [k \in 1..Cardinality(keep) |-> cafes[nth(k)]]

\* C6: in every state filteredCafes is the part of allCafes that matches the
\* text now in the search box, and allCafes itself when the box is empty.
C6_FilteredMatchesQuery == filteredCafes = ExpectedFilter(allCafes, searchInput)

Highlighted == {i \in 1..Len(cardList) : cardList[i].selected}

\* C8: at most one card is highlighted in any state, and selectCafe(id) for an
\* id that has a card leaves that card, and no other, highlighted.
C8_SingleSelection ==
  [][/\ Cardinality(Highlighted) <= 1
     /\ Cardinality(Highlighted') <= 1
     /\ \A id \in DOMAIN idToCard :
          selectCafe(id) =>
            {i \in 1..Len(cardList') : cardList'[i].selected} = {idToCard[id]}]_vars

\* C8 witness: of several cards, one that is not the first is the highlighted
\* one, and it is the card of the selected cafe
C8_Witness ==
  /\ Len(cardList) >= 2
  /\ \E i \in 1..Len(cardList) :
       /\ Highlighted = {i}
       /\ cardList[i].id = selectedCafeId
       /\ i # 1

\* C9: no two searches are in flight at the same time.
C9_OneSearchInFlight == Len(searches) <= 1

\* C10: no failure of preference storage escapes a handler uncaught.
C10_NoStorageFailureEscapes == uncaught # "storage"

\* C11: with a stored entry that parses (or none), a radius change stores the
\* new radius and keeps the stored lastLat and lastLng, so that loading then
\* gives that radius and the same restored position; a marker placement stores
\* the position and keeps the stored radius.
C11_SavePrefsMerges ==
  [][~ ParseThrows(store) =>
       /\ RadiusChange =>
            /\ store'.radius = <<radius'>>
            /\ store'.lastLat = store.lastLat
            /\ store'.lastLng = store.lastLng
            /\ loadPrefs(store').radius = radius'
            /\ loadPrefs(store').userMarker = loadPrefs(store).userMarker
       /\ (GeoSuccess(OnePoint) \/ MapClick(OnePoint)) =>
            /\ store'.lastLat = <<userMarker'[1].lat>>
            /\ store'.lastLng = <<userMarker'[1].lng>>
            /\ store'.radius = store.radius
            /\ loadPrefs(store').radius = loadPrefs(store).radius
            /\ loadPrefs(store').userMarker = userMarker']_vars

\* C11 witness: the stored entry has the default radius, which only a radius
\* change writes, next to a last position
C11_Witness ==
  /\ store.kind = "json"
  /\ store.radius = <<DefaultRadius>>
  /\ store.lastLat # Undef
  /\ store.lastLng # Undef

\* C12: whenever the user marker exists, the stored lastLat and lastLng are
\* the marker's position.
C12_MarkerPersisted ==
  userMarker # <<>> =>
    /\ store.lastLat = <<userMarker[1].lat>>
    /\ store.lastLng = <<userMarker[1].lng>>

\* the cards that show a cafe
CafeCards == {i \in 1..Len(cardList) : cardList[i].id # NoId}

\* C13: the ids with a card are the ids with a marker, and every displayed
\* cafe has exactly one card and one marker: as many cards, and as many
\* markers, as registered ids and as cafes in filteredCafes.
C13_ListAndMapInSync ==
  /\ DOMAIN idToCard = DOMAIN idToMarker
  /\ Cardinality(CafeCards) = Cardinality(DOMAIN idToCard)
  /\ Len(cafeLayer) = Cardinality(DOMAIN idToMarker)

\* C14: right after handleReset nothing is selected, no card is highlighted,
\* both registries are empty, the user marker is gone, the search box is empty
\* and the radius is 1000.
C14_ResetClears ==
  [][HandleReset =>
       /\ selectedCafeId' = NullId
       /\ \A i \in 1..Len(cardList') : ~ cardList'[i].selected
       /\ DOMAIN idToCard' = {}
       /\ DOMAIN idToMarker' = {}
       /\ userMarker' = <<>>
       /\ searchInput' = <<>>
       /\ radius' = 1000]_vars

\* C14 witness: a search had placed the user marker and filled allCafes;
\* after the reset nothing is shown or selected
C14_Witness ==
  /\ summary = Message("Ready when you are.")
  /\ allCafes # <<>>
  /\ store.lastLat # Undef
  /\ cardList = <<>>
  /\ selectedCafeId = NullId
  /\ userMarker = <<>>
  /\ radius = 1000

\* the status texts with which a search ends: Success from the primary source
\* or from the fallback, or Failed
SearchEndTexts == {"cafe(s) found", "Showing fallback cafes", "Could not load cafes."}

\* the status text of a geolocation request that failed
LocationFailedText == "Location permission needed. Or use Pick on Map."

\* the steps of the searches in flight: nothing, new searches that query the
\* primary source, one search going from the primary query to the fallback
\* query, or one search ending with the spinner hidden and an end text
SearchStep ==
  \/ searches' = searches
  \/ /\ Len(searches') > Len(searches)
     /\ SubSeq(searches', 1, Len(searches)) = searches
     /\ \A j \in (Len(searches) + 1)..Len(searches') : searches'[j].pc = "primary"
  \/ \E i \in 1..Len(searches) :
       /\ searches[i].pc = "primary"
       /\ Len(searches') = Len(searches)
       /\ searches'[i].pc = "fallback"
       /\ \A j \in 1..Len(searches) : j # i => searches'[j] = searches[j]
  \/ \E i \in 1..Len(searches) :
       /\ searches' = RemoveAt(searches, i)
       /\ spinner' = FALSE
       /\ summary'.text \in SearchEndTexts

\* C15: a search goes from locating to the primary query (or ends with the
\* location failure), from the primary query to its end or to the fallback
\* query, from the fallback query to its end, hiding the spinner when it ends;
\* and every located or querying search comes to an end.
C15_SearchLifecycle ==
  /\ [][/\ SearchStep
        /\ geoPending' < geoPending =>
             \/ Len(searches') = Len(searches) + 1
             \/ summary'.text = LocationFailedText]_vars
  /\ (geoPending > 0) ~> (summary.text \in SearchEndTexts \cup {LocationFailedText})
  /\ (Len(searches) > 0) ~> (Len(searches) = 0 /\ ~ spinner)

\* C16: selectCafe(id, fly) for an id with neither a card nor a marker leaves
\* no card highlighted, opens no popup and asks for no flyTo, changes no card
\* otherwise, and sets selectedCafeId to id.
C16_SelectUnknownId ==
  [][\A id \in SelectIds :
       (/\ id \notin DOMAIN idToCard
        /\ id \notin DOMAIN idToMarker
        /\ selectCafe(id)) =>
          /\ {i \in 1..Len(cardList') : cardList'[i].selected} = {}
          /\ [i \in 1..Len(cardList') |-> cardList'[i].id]
               = [i \in 1..Len(cardList) |-> cardList[i].id]
          /\ \A fly \in BOOLEAN :
               /\ ~ MarkerEffects(idToMarker, id, fly).openPopup
               /\ ~ MarkerEffects(idToMarker, id, fly).flyTo
          /\ selectedCafeId' = id]_vars

\* C16 witness: cafes are listed, the id of no cafe is the selected one and no
\* card is highlighted
C16_Witness ==
  /\ selectedCafeId = "7"
  /\ Len(cardList) >= 2
  /\ \A i \in 1..Len(cardList) : cardList[i].id # NoId /\ ~ cardList[i].selected

\* C17: when no search is in flight, the user marker exists and allCafes is
\* not empty, every record's distanceMeters is the distance from the user
\* marker's position to the record.
C17_DistancesFromMarker ==
  (Len(searches) = 0 /\ userMarker # <<>> /\ allCafes # <<>>) =>
    \A i \in 1..Len(allCafes) :
      /\ "distanceMeters" \in DOMAIN allCafes[i]
      /\ allCafes[i].distanceMeters =
           haversineDistance(userMarker[1].lat, userMarker[1].lng,
                             allCafes[i].lat, allCafes[i].lng)

\* no cafe card and no cafe marker is displayed
NothingDisplayed == cafeLayer = <<>> /\ CafeCards = {}

\* C18: handleReset removes the user marker and only the start of a search
\* places it again; so while there is no user marker no search started after
\* the reset exists, and from a state with no user marker that displays no
\* cafe, no step displays one.
C18_ResetStaysCleared ==
  [][(userMarker = <<>> /\ NothingDisplayed) =>
       (/\ cafeLayer' = <<>>
        /\ \A i \in 1..Len(cardList') : cardList'[i].id = NoId)]_vars

\* C19: a click on the map starts at most one search, however many times
\* Pick on Map was pressed before it.
C19_PickIsOneShot ==
  [][MapClick(OnePoint) => Len(searches') <= Len(searches) + 1]_vars

\* C20: a card is highlighted if and only if its id is selectedCafeId.
C20_HighlightIsSelection ==
  \A i \in CafeCards : cardList[i].selected <=> cardList[i].id = selectedCafeId

====
